---- MODULE Spec2Model ----
(***************************************************************************)
(* scripts/generate-logos.py: the logo generator.  One process invocation  *)
(* runs the __main__ block, which calls generate_logos() once.  The state  *)
(* is the filesystem (the script, logo.png, public/ and its files), the    *)
(* locals of generate_logos() and the position in its body.                *)
(***************************************************************************)
EXTENDS Integers, Sequences, FiniteSets, TLC

VARIABLES
    scriptFile,   \* __file__, a path: the sequence of its components
    fs,           \* the filesystem: existing path |-> entry
    pc,           \* position in the script
    img,          \* local img of generate_logos()
    i,            \* 1-based position of the for loop in SIZES
    generated,    \* local generated of generate_logos()
    result,       \* what generate_logos() returned: "None", "True", "False"
    exc,          \* the exception that left generate_logos(), or "none"
    exitCode,     \* exit status of the last finished process, -1 before
    runs,         \* number of process invocations so far
    fs0,          \* history: the filesystem when the current run started
    prevFs        \* history: the filesystem the previous run left, if it returned True

vars == <<scriptFile, fs, pc, img, i, generated, result, exc, exitCode, runs, fs0, prevFs>>

\* Bound of the model: how many times the script is invoked in a row.
MaxRuns == 2

-----------------------------------------------------------------------------
\* pathlib: a path is the sequence of its components; <<>> is the root / ".".

Parent(p) == IF Len(p) = 0 THEN p ELSE SubSeq(p, 1, Len(p) - 1)

Join(p, name) == Append(p, name)

Prefixes(p) == { SubSeq(p, 1, k) : k \in 0..Len(p) }

SOURCE_LOGO == Join(Parent(Parent(scriptFile)), "logo.png")

PUBLIC_DIR_OneLevel == Join(Parent(scriptFile), "public")

PUBLIC_DIR == Join(Parent(Parent(scriptFile)), "public")

SIZES_SortedKeys ==
    << [filename |-> "favicon.png",  size |-> 32],
       [filename |-> "logo-128.png", size |-> 128],
       [filename |-> "logo-192.png", size |-> 192],
       [filename |-> "logo-32.png",  size |-> 32],
       [filename |-> "logo-512.png", size |-> 512],
       [filename |-> "logo-64.png",  size |-> 64] >>

\* The dict SIZES; iteration is in insertion order.
SIZES ==
    << [filename |-> "logo-32.png",  size |-> 32],
       [filename |-> "logo-64.png",  size |-> 64],
       [filename |-> "logo-128.png", size |-> 128],
       [filename |-> "logo-192.png", size |-> 192],
       [filename |-> "logo-512.png", size |-> 512],
       [filename |-> "favicon.png",  size |-> 32] >>

old_ico == Join(PUBLIC_DIR, "favicon.ico")

-----------------------------------------------------------------------------
\* Filesystem entries.  kind: "dir", "py", "ico", "png" (a decodable image),
\* "truncated" (header readable, pixel data not), "junk" (not an image).

Entry(kind, mode, w, h) == [kind |-> kind, mode |-> mode, w |-> w, h |-> h]

DirEntry == Entry("dir", "", 0, 0)
ScriptEntry == Entry("py", "", 0, 0)
IcoEntry == Entry("ico", "", 0, 0)
JunkEntry == Entry("junk", "", 0, 0)
StaleEntry == Entry("png", "P", 16, 16)

Exists(fsx, p) == p \in DOMAIN fsx

WriteFile(fsx, p, e) == [q \in DOMAIN fsx \cup {p} |-> IF q = p THEN e ELSE fsx[q]]

Unlink(fsx, p) == [q \in DOMAIN fsx \ {p} |-> fsx[q]]

\* Path.mkdir(parents=True, exist_ok=True)
MkdirRaisesNoExistOk(fsx, p) == Exists(fsx, p)

MkdirRaises(fsx, p) == Exists(fsx, p) /\ fsx[p].kind # "dir"

Mkdir(fsx, p) ==
    [q \in DOMAIN fsx \cup Prefixes(p) |-> IF q \in DOMAIN fsx THEN fsx[q] ELSE DirEntry]

-----------------------------------------------------------------------------
\* PIL images in memory: mode, size, and whether the pixel data can be loaded.

NoImage == [mode |-> "", w |-> 0, h |-> 0, intact |-> FALSE]

\* Image.open: lazy, reads the header only.
ImageOpenRaises(e) == e.kind \notin {"png", "truncated"}

ImageOpen(e) == [mode |-> e.mode, w |-> e.w, h |-> e.h, intact |-> (e.kind = "png")]

NeedsConvertNever(im) == FALSE

NeedsConvert(im) == im.mode # "RGBA"

Convert(im, mode) == [im EXCEPT !.mode = mode]

ResizeKeepAspect(im, size) ==
    [im EXCEPT !.w = size[1], !.h = (size[1] * im.h) \div im.w]

\* Image.resize((w, h), LANCZOS): exactly the requested size, same mode.
Resize(im, size) == [im EXCEPT !.w = size[1], !.h = size[2]]

\* Image.save(path, 'PNG'): the file holds the image's mode and size.
SavedPng(im) == Entry("png", im.mode, im.w, im.h)

\* The interpreter's exit status: the __main__ block drops the return value.
ExitStatus(res, raised) == IF raised THEN 1 ELSE 0

-----------------------------------------------------------------------------
\* Initial filesystems.

ScriptPaths == { <<"repo", "scripts", "generate-logos.py">>, <<"generate-logos.py">> }

SourceStates ==
    { Entry("absent", "", 0, 0),
      Entry("png", "RGBA", 2048, 2048),
      Entry("png", "RGB", 100, 50),
      Entry("png", "P", 16, 16),
      Entry("truncated", "RGBA", 2048, 2048),
      Entry("truncated", "RGB", 100, 50),
      JunkEntry }

OutputNames == { SIZES[k].filename : k \in 1..Len(SIZES) }

OutputStates ==
    { [dir |-> "absent", names |-> {}],
      [dir |-> "file",   names |-> {}],
      [dir |-> "dir",    names |-> {}],
      [dir |-> "dir",    names |-> {"favicon.ico"}],
      [dir |-> "dir",    names |-> {"logo-32.png", "favicon.png"}],
      [dir |-> "dir",    names |-> {"logo-64.png", "favicon.ico"}],
      [dir |-> "dir",    names |-> OutputNames],
      [dir |-> "dir",    names |-> OutputNames \cup {"favicon.ico"}] }

InitialFs(sf, src, out) ==
    LET anchor == Parent(Parent(sf))
        base   == [q \in Prefixes(sf) |-> IF q = sf THEN ScriptEntry ELSE DirEntry]
        withSrc == IF src.kind = "absent" THEN base
                   ELSE WriteFile(base, Join(anchor, "logo.png"), src)
        pub    == Join(anchor, "public")
        withDir == CASE out.dir = "absent" -> withSrc
                     [] out.dir = "file"   -> WriteFile(withSrc, pub, JunkEntry)
                     [] OTHER              -> WriteFile(withSrc, pub, DirEntry)
    IN [q \in DOMAIN withDir \cup { Join(pub, n) : n \in out.names } |->
            IF q \in DOMAIN withDir THEN withDir[q]
            ELSE IF q = Join(pub, "favicon.ico") THEN IcoEntry ELSE StaleEntry]

NoFs == [q \in {} |-> DirEntry]

Init ==
    /\ scriptFile \in ScriptPaths
    /\ \E src \in SourceStates, out \in OutputStates :
          fs = InitialFs(scriptFile, src, out)
    /\ pc = "start"
    /\ img = NoImage
    /\ i = 1
    /\ generated = <<>>
    /\ result = "None"
    /\ exc = "none"
    /\ exitCode = -1
    /\ runs = 0
    /\ fs0 = fs
    /\ prevFs = NoFs

-----------------------------------------------------------------------------
\* The steps of one invocation.

Raise(e) ==
    /\ exc' = e
    /\ pc' = "raised"

\* python3 scripts/generate-logos.py: the __main__ block calls generate_logos().
Invoke ==
    /\ pc \in {"start", "exited"}
    /\ runs < MaxRuns
    /\ runs' = runs + 1
    /\ pc' = "check_source"
    /\ img' = NoImage
    /\ i' = 1
    /\ generated' = <<>>
    /\ result' = "None"
    /\ exc' = "none"
    /\ fs0' = fs
    /\ prevFs' = IF result = "True" THEN fs ELSE NoFs
    /\ UNCHANGED <<scriptFile, fs, exitCode>>

CheckSourceAfterMkdir ==
    /\ pc = "check_source"
    /\ fs' = IF MkdirRaises(fs, PUBLIC_DIR) THEN fs ELSE Mkdir(fs, PUBLIC_DIR)
    /\ IF ~Exists(fs, SOURCE_LOGO)
       THEN /\ result' = "False"
            /\ pc' = "returned"
       ELSE /\ pc' = "mkdir"
            /\ UNCHANGED result
    /\ UNCHANGED <<scriptFile, img, i, generated, exc, exitCode, runs, fs0, prevFs>>

\* if not SOURCE_LOGO.exists(): return False
CheckSource ==
    /\ pc = "check_source"
    /\ IF ~Exists(fs, SOURCE_LOGO)
       THEN /\ result' = "False"
            /\ pc' = "returned"
       ELSE /\ pc' = "mkdir"
            /\ UNCHANGED result
    /\ UNCHANGED <<scriptFile, fs, img, i, generated, exc, exitCode, runs, fs0, prevFs>>

\* PUBLIC_DIR.mkdir(parents=True, exist_ok=True)
EnsurePublicDir ==
    /\ pc = "mkdir"
    /\ IF MkdirRaises(fs, PUBLIC_DIR)
       THEN /\ Raise("FileExistsError")
            /\ UNCHANGED fs
       ELSE /\ fs' = Mkdir(fs, PUBLIC_DIR)
            /\ pc' = "open"
            /\ UNCHANGED exc
    /\ UNCHANGED <<scriptFile, img, i, generated, result, exitCode, runs, fs0, prevFs>>

\* img = Image.open(SOURCE_LOGO)
OpenSource ==
    /\ pc = "open"
    /\ IF ImageOpenRaises(fs[SOURCE_LOGO])
       THEN /\ Raise("UnidentifiedImageError")
            /\ UNCHANGED img
       ELSE /\ img' = ImageOpen(fs[SOURCE_LOGO])
            /\ pc' = "convert"
            /\ UNCHANGED exc
    /\ UNCHANGED <<scriptFile, fs, i, generated, result, exitCode, runs, fs0, prevFs>>

\* if img.mode != 'RGBA': img = img.convert('RGBA')   (convert loads the pixels)
ConvertToRGBA ==
    /\ pc = "convert"
    /\ IF NeedsConvert(img)
       THEN IF img.intact
            THEN /\ img' = Convert(img, "RGBA")
                 /\ pc' = "loop"
                 /\ UNCHANGED exc
            ELSE /\ Raise("OSError: image file is truncated")
                 /\ UNCHANGED img
       ELSE /\ pc' = "loop"
            /\ UNCHANGED <<img, exc>>
    /\ UNCHANGED <<scriptFile, fs, i, generated, result, exitCode, runs, fs0, prevFs>>

LoopExit(n) == IF n > Len(SIZES) THEN "cleanup" ELSE "loop"

\* One iteration of the for loop: resize (loads the pixels), save, append.
GenerateSize ==
    /\ pc = "loop"
    /\ LET filename == SIZES[i].filename
           size == SIZES[i].size
           output_path == Join(PUBLIC_DIR, filename)
           resized == Resize(img, <<size, size>>)
       IN IF img.intact
          THEN /\ fs' = WriteFile(fs, output_path, SavedPng(resized))
               /\ generated' = Append(generated, <<filename, size>>)
               /\ i' = i + 1
               /\ pc' = LoopExit(i + 1)
               /\ UNCHANGED exc
          ELSE /\ Raise("OSError: image file is truncated")
               /\ UNCHANGED <<fs, generated, i>>
    /\ UNCHANGED <<scriptFile, img, result, exitCode, runs, fs0, prevFs>>

GenerateSizeFailsSkipped ==
    /\ pc = "loop"
    /\ img.intact
    /\ i' = i + 1
    /\ pc' = LoopExit(i + 1)
    /\ UNCHANGED <<scriptFile, fs, img, generated, result, exc, exitCode, runs, fs0, prevFs>>

\* The environment fails an iteration: resize runs out of memory (nothing is
\* touched), or save fails after opening the file (a partial file may be left).
GenerateSizeFails ==
    /\ pc = "loop"
    /\ img.intact
    /\ \E fault \in {"MemoryError", "OSError: save failed"}, partial \in BOOLEAN :
          /\ fault = "MemoryError" => ~partial
          /\ Raise(fault)
          /\ fs' = IF partial
                   THEN WriteFile(fs, Join(PUBLIC_DIR, SIZES[i].filename), JunkEntry)
                   ELSE fs
    /\ UNCHANGED <<scriptFile, img, i, generated, result, exitCode, runs, fs0, prevFs>>

CheckOldIcoAlwaysUnlink ==
    /\ pc = "cleanup"
    /\ pc' = "unlink"
    /\ UNCHANGED <<scriptFile, fs, img, i, generated, result, exc, exitCode, runs, fs0, prevFs>>

\* if old_ico.exists(): ... else fall through to return True
CheckOldIco ==
    /\ pc = "cleanup"
    /\ IF Exists(fs, old_ico)
       THEN /\ pc' = "unlink"
            /\ UNCHANGED result
       ELSE /\ pc' = "returned"
            /\ result' = "True"
    /\ UNCHANGED <<scriptFile, fs, img, i, generated, exc, exitCode, runs, fs0, prevFs>>

\* old_ico.unlink() succeeds; return True
UnlinkOldIco ==
    /\ pc = "unlink"
    /\ Exists(fs, old_ico)
    /\ fs' = Unlink(fs, old_ico)
    /\ pc' = "returned"
    /\ result' = "True"
    /\ UNCHANGED <<scriptFile, img, i, generated, exc, exitCode, runs, fs0, prevFs>>

\* old_ico.unlink() raises: permission denied (the file stays), or the file
\* was removed by someone else after the exists() check.
UnlinkOldIcoFails ==
    /\ pc = "unlink"
    /\ \E e \in {"PermissionError", "FileNotFoundError"} :
          /\ e = "PermissionError" => Exists(fs, old_ico)
          /\ Raise(e)
          /\ fs' = IF e = "FileNotFoundError" /\ Exists(fs, old_ico)
                   THEN Unlink(fs, old_ico) ELSE fs
    /\ UNCHANGED <<scriptFile, img, i, generated, result, exitCode, runs, fs0, prevFs>>

\* The __main__ block ends: generate_logos() returned or its exception escaped.
ProcessExit ==
    /\ pc \in {"returned", "raised"}
    /\ exitCode' = ExitStatus(result, pc = "raised")
    /\ pc' = "exited"
    /\ UNCHANGED <<scriptFile, fs, img, i, generated, result, exc, runs, fs0, prevFs>>

Next ==
    \/ Invoke
    \/ CheckSource
    \/ EnsurePublicDir
    \/ OpenSource
    \/ ConvertToRGBA
    \/ GenerateSize
    \/ GenerateSizeFails
    \/ CheckOldIco
    \/ UnlinkOldIco
    \/ UnlinkOldIcoFails
    \/ ProcessExit

Spec == Init /\ [][Next]_vars

-----------------------------------------------------------------------------
\* What the properties below read off the state.

Absent == Entry("absent", "", 0, 0)

EntryAt(fsx, p) == IF Exists(fsx, p) THEN fsx[p] ELSE Absent

OutPath(k) == Join(PUBLIC_DIR, SIZES[k].filename)

Ended == pc \in {"returned", "raised", "exited"}

Failed == pc \in {"raised", "exited"} /\ exc # "none"

InjectedFaults == {"MemoryError", "OSError: save failed"}

UnlinkErrors == {"PermissionError", "FileNotFoundError"}

\* The table as the documentation prints it: filename, edge length.
DocTable ==
    << <<"logo-32.png", 32>>, <<"logo-64.png", 64>>, <<"logo-128.png", 128>>,
       <<"logo-192.png", 192>>, <<"logo-512.png", 512>>, <<"favicon.png", 32>> >>

IsSquarePng(e, n) == e.kind = "png" /\ e.w = n /\ e.h = n

-----------------------------------------------------------------------------
\* C1: whenever generate_logos() has returned True, each of the six table
\* filenames exists in the output directory as a square image whose width and
\* height equal the table's edge length, whatever the source's size was.
C1_OutputsSquare ==
    result = "True" =>
        \A k \in 1..6 :
            LET p == Join(PUBLIC_DIR, DocTable[k][1])
            IN Exists(fs, p) /\ IsSquarePng(fs[p], DocTable[k][2])

\* A run on the 100x50 source returned True.
C1_Witness ==
    /\ result = "True"
    /\ fs[SOURCE_LOGO].w # fs[SOURCE_LOGO].h

\* C2: with the source file missing, the call returns False, raises nothing
\* and leaves the filesystem exactly as it was when the run started.
C2_MissingSource ==
    (pc # "start" /\ ~Exists(fs0, SOURCE_LOGO)) =>
        /\ exc = "none"
        /\ fs = fs0
        /\ pc \in {"check_source", "returned", "exited"}
        /\ pc \in {"returned", "exited"} => result = "False"

\* The call returned False with the output directory absent and still absent.
C2_Witness ==
    /\ pc = "returned"
    /\ result = "False"
    /\ ~Exists(fs0, PUBLIC_DIR)
    /\ ~Exists(fs, PUBLIC_DIR)

\* C3: when the call has returned True, favicon.ico is absent; and a run that
\* started without favicon.ico never fails in the deletion step.
C3_LegacyIcoRemoved ==
    /\ result = "True" => ~Exists(fs, old_ico)
    /\ (Failed /\ exc \in UnlinkErrors) => Exists(fs0, old_ico)
    /\ (pc = "unlink") => Exists(fs0, old_ico)

\* A run that started with favicon.ico and all six outputs present returned True.
C3_Witness ==
    /\ result = "True"
    /\ Exists(fs0, old_ico)
    /\ \A k \in 1..Len(SIZES) : Exists(fs0, OutPath(k))

\* C4: a run right after a run that returned True never fails because the
\* directory or the outputs exist (it can only fail by an injected resize or
\* save fault), and when it returns it returns True and leaves the filesystem
\* equal to the one the first run left.
C4_Idempotent ==
    prevFs # NoFs =>
        /\ Failed => exc \in InjectedFaults
        /\ (pc \in {"returned", "exited"} /\ exc = "none") => (result = "True" /\ fs = prevFs)

\* The second run in a row returned True.
C4_Witness ==
    /\ prevFs # NoFs
    /\ runs = 2
    /\ result = "True"

\* C5 (as claimed): once all six outputs are written, the call returns True
\* even when deleting favicon.ico fails.
C5_DeleteFailureNotFatal ==
    (Ended /\ Len(generated) = Len(SIZES)) => result = "True"

\* C6 (as claimed): the exit status is 0 when generate_logos() returned True
\* and non-zero when it returned False.
C6_ExitStatusFollowsResult ==
    pc = "exited" =>
        /\ result = "True" => exitCode = 0
        /\ result = "False" => exitCode # 0

\* C7: a failure at entry k propagates (the call returns neither True nor
\* False), the entries before k are written, no entry after k is touched, no
\* failed entry is skipped (the loop never advances without recording the
\* entry), and False is returned only for a missing source.
C7_FailureStopsRun ==
    /\ Len(generated) = i - 1
    /\ Failed => result = "None"
    /\ (Failed /\ exc \in InjectedFaults) =>
          /\ \A j \in 1..(i - 1) : IsSquarePng(EntryAt(fs, OutPath(j)), SIZES[j].size)
          /\ \A j \in (i + 1)..Len(SIZES) : EntryAt(fs, OutPath(j)) = EntryAt(fs0, OutPath(j))
    /\ result = "False" => ~Exists(fs0, SOURCE_LOGO)

\* The save of the third entry failed, leaving a partial file, over a stale set.
C7_Witness ==
    /\ pc = "raised"
    /\ exc = "OSError: save failed"
    /\ i = 3
    /\ EntryAt(fs, OutPath(3)) = JunkEntry
    /\ EntryAt(fs, OutPath(4)) = StaleEntry

\* C8: the entries are written in the documented table order, favicon.ico is
\* checked and deleted only after all six are written, and a run that ends
\* before the sixth write leaves a pre-existing favicon.ico in place.
C8_CleanupAfterAllWrites ==
    /\ \A j \in 1..Len(generated) : j <= 6 /\ generated[j] = DocTable[j]
    /\ pc = "unlink" => Len(generated) = 6
    /\ (Exists(fs0, old_ico) /\ ~Exists(fs, old_ico)) =>
          /\ Len(generated) = 6
          /\ \A k \in 1..6 :
                IsSquarePng(EntryAt(fs, Join(PUBLIC_DIR, DocTable[k][1])), DocTable[k][2])

\* A run failed at the sixth entry and favicon.ico, present before, is still there.
C8_Witness ==
    /\ pc = "raised"
    /\ Len(generated) = 5
    /\ Exists(fs0, old_ico)
    /\ Exists(fs, old_ico)

\* C9: the image is in RGBA mode from the first resize on, so every file the
\* run has written is RGBA, whatever the source's mode.
C9_OutputsRGBA ==
    /\ pc \in {"loop", "cleanup", "unlink"} => img.mode = "RGBA"
    /\ \A j \in 1..Len(generated) :
          EntryAt(fs, Join(PUBLIC_DIR, generated[j][1])).mode = "RGBA"

\* A run on a palette source wrote all six files.
C9_Witness ==
    /\ Len(generated) = 6
    /\ fs[SOURCE_LOGO].mode = "P"

\* C10 (as claimed): the source is anchored two levels above the script and
\* the output directory is "public" one level above the script.
C10_DifferentAnchors ==
    /\ Parent(SOURCE_LOGO) = Parent(Parent(scriptFile))
    /\ PUBLIC_DIR = Join(Parent(scriptFile), "public")

\* C10 (amended): source and output directory share one anchor, two levels
\* above the script: logo.png and public are siblings there, and every file
\* the run records is written into that public directory.
C10_SameAnchor ==
    /\ SOURCE_LOGO = Join(Parent(Parent(scriptFile)), "logo.png")
    /\ PUBLIC_DIR = Join(Parent(Parent(scriptFile)), "public")
    /\ Parent(PUBLIC_DIR) = Parent(SOURCE_LOGO)
    /\ \A j \in 1..Len(generated) :
          Exists(fs, Join(Join(Parent(SOURCE_LOGO), "public"), generated[j][1]))

\* The script two directories deep wrote all six files.
C10_Witness ==
    /\ Len(scriptFile) = 3
    /\ result = "True"
    /\ Exists(fs, <<"repo", "public", "logo-512.png">>)

====
